---- MODULE Spec2Model ----
(***************************************************************************)
(* Silkworm_Monitor, src/app.py: the ingestion-and-retention pipeline      *)
(* (POST /api/data), the read paths (GET /api/latest, GET /history), the   *)
(* health classifier and the 7-day retention sweep over the SensorData     *)
(* table.                                                                  *)
(*                                                                         *)
(* Reading of the source.  Lines 69-83 of receive_data are indented one    *)
(* level less than the statements around them, so the file as it stands    *)
(* is rejected by the Python compiler ("expected 'except' or 'finally'     *)
(* block").  The model reads those lines at the indentation of their       *)
(* neighbours (inside the try block of line 59), the only placement under  *)
(* which the file is a program, and keeps every statement exactly as       *)
(* written: the names the constructor call reads, the keyword arguments it *)
(* passes and the string it passes as timestamp.                           *)
(*                                                                         *)
(* Numbers.  Sensor values are floats in the source; the model keeps them  *)
(* on a decimal grid of 1/Scale.  Instants are datetimes; the model counts *)
(* them in ticks of 1/TicksPerSecond second.                               *)
(***************************************************************************)
EXTENDS Integers, Sequences, FiniteSets

(* ------------------------------ bounds --------------------------------- *)
Scale == 100
TicksPerSecond == 2
MaxRows == 2
MaxInserts == 3
BigMargin == 1

(* ------------------------- program constants --------------------------- *)
TempMin == 24
TempMax == 29
HumMin == 60
HumMax == 90
GasMax == 1500
RetentionDays == 7
ISTHours == 5
ISTMinutes == 30
HistoryLimit == 100

Second == TicksPerSecond
Minute == 60 * Second
Hour == 60 * Minute
Day == 24 * Hour

\* timedelta(hours=5, minutes=30)
ISTOffset == ISTHours * Hour + ISTMinutes * Minute
\* timedelta(days=7)
Retention == RetentionDays * Day

(* ----------------------------- classifier ------------------------------ *)
\* lines 24-29 with the lower bounds themselves unhealthy (<= for <)
check_health_exclusive(temp, hum, gas) ==
    IF temp <= TempMin * Scale \/ temp > TempMax * Scale THEN FALSE
    ELSE IF hum <= HumMin * Scale \/ hum > HumMax * Scale THEN FALSE
    ELSE IF gas > GasMax * Scale THEN FALSE
    ELSE TRUE

check_health(temp, hum, gas) ==
    IF temp < TempMin * Scale \/ temp > TempMax * Scale THEN FALSE
    ELSE IF hum < HumMin * Scale \/ hum > HumMax * Scale THEN FALSE
    ELSE IF gas > GasMax * Scale THEN FALSE
    ELSE TRUE

(* ------------------------------- time ---------------------------------- *)
\* strftime("%Y-%m-%d %H:%M:%S"): the instant with its sub-second part dropped
strftime(t) == (t \div Second) * Second

\* lines 69-72 and 82 without the shift of line 72
Normalize_unshifted(now) == strftime(now)

\* lines 69-72 and 82: the server clock shifted by +5:30, formatted to seconds
Normalize(now) == strftime(now + ISTOffset)

\* line 33 with the sign of the timedelta turned
Cutoff_ahead(now) == now + Retention

\* line 33
Cutoff(now) == now - Retention

(* --------------------------- JSON payloads ----------------------------- *)
FieldNames == {"temperature", "humidity", "soil_moisture", "gas_value", "ldr_value"}

Absent == [t |-> "absent", n |-> 0, s |-> ""]
Null == [t |-> "null", n |-> 0, s |-> ""]
Num(n) == [t |-> "num", n |-> n, s |-> ""]
Str(s) == [t |-> "str", n |-> 0, s |-> s]
Bool(b) == [t |-> "bool", n |-> (IF b THEN 1 ELSE 0), s |-> ""]
Arr(len) == [t |-> "array", n |-> len, s |-> ""]

NoFields == [f \in FieldNames |-> Absent]

\* request.get_json(force=True, silent=True): None for a missing or unparseable
\* body, otherwise the parsed JSON value
NoBody == [kind |-> "none", json |-> Null, fields |-> NoFields, extra |-> FALSE]
Scalar(v) == [kind |-> "scalar", json |-> v, fields |-> NoFields, extra |-> FALSE]
Object(fs, extra) == [kind |-> "object", json |-> Null, fields |-> fs, extra |-> extra]

Present(body) == {f \in FieldNames : body.fields[f].t # "absent"}

\* Python truth value of a parsed JSON value
TruthyValue(v) ==
    CASE v.t = "null" -> FALSE
      [] v.t = "num" -> v.n # 0
      [] v.t = "bool" -> v.n # 0
      [] v.t = "str" -> v.s # ""
      [] v.t = "array" -> v.n # 0
      [] OTHER -> FALSE

\* line 56: the truth value of `data`
Truthy(body) ==
    CASE body.kind = "none" -> FALSE
      [] body.kind = "scalar" -> TruthyValue(body.json)
      [] body.kind = "object" -> Present(body) # {} \/ body.extra
      [] OTHER -> FALSE

\* the strings of the model that float() accepts, with their values
NumericStrings == {"26"}
StrValue(s) == IF s = "26" THEN 26 * Scale ELSE 0

\* float(v): [ok, val]
ToFloat(v) ==
    CASE v.t = "num" -> [ok |-> TRUE, val |-> v.n]
      [] v.t = "bool" -> [ok |-> TRUE, val |-> v.n * Scale]
      [] v.t = "str" -> IF v.s \in NumericStrings
                        THEN [ok |-> TRUE, val |-> StrValue(v.s)]
                        ELSE [ok |-> FALSE, val |-> 0]
      [] OTHER -> [ok |-> FALSE, val |-> 0]

\* data.get(key, 0)
Get(body, key) == IF body.fields[key].t = "absent" THEN Num(0) ELSE body.fields[key]

\* lines 61-65: the five conversions; raised when data has no .get (not a dict)
\* or when a float() raises
ParseData(body) ==
    IF body.kind # "object" THEN [raised |-> TRUE, env |-> [x \in {} |-> 0]]
    ELSE IF \E f \in FieldNames : ~ToFloat(Get(body, f)).ok
         THEN [raised |-> TRUE, env |-> [x \in {} |-> 0]]
         ELSE [raised |-> FALSE,
               env |-> [temp |-> ToFloat(Get(body, "temperature")).val,
                        hum |-> ToFloat(Get(body, "humidity")).val,
                        soil |-> ToFloat(Get(body, "soil_moisture")).val,
                        gas |-> ToFloat(Get(body, "gas_value")).val,
                        ldr |-> ToFloat(Get(body, "ldr_value")).val]]

(* ------------------------------ the store ------------------------------ *)
\* class SensorData: one row of the table
Row(id, temp, hum, soil, gas, ldr, ts) ==
    [id |-> id, temperature |-> temp, humidity |-> hum, soil_moisture |-> soil,
     gas_value |-> gas, ldr_value |-> ldr, timestamp |-> ts]

Ids(rows) == {r.id : r \in rows}
MaxId(rows) == LET ids == Ids(rows) IN CHOOSE i \in ids : \A j \in ids : j <= i
MinId(rows) == LET ids == Ids(rows) IN CHOOSE i \in ids : \A j \in ids : i <= j

\* id = Column(Integer, primary_key=True) on SQLite: the table is created
\* without AUTOINCREMENT, so a new row gets one more than the largest id
\* currently in the table (1 in an empty table)
NextRowId(rows) == IF rows = {} THEN 1 ELSE MaxId(rows) + 1

\* the INSERT that flushes a pending SensorData object
StoreInsert(rows, entry) ==
    rows \cup {Row(NextRowId(rows), entry.temperature, entry.humidity,
                   entry.soil_moisture, entry.gas_value, entry.ldr_value,
                   entry.timestamp)}

\* lines 33-36 with a DELETE that also takes the row with the smallest id
cleanup_data_dropsLowest(rows, now) ==
    {r \in rows : ~(r.timestamp < Cutoff(now)) /\ r.id # MinId(rows)}

\* lines 33-36 with <= for < in the filter
cleanup_data_inclusive(rows, now) == {r \in rows : ~(r.timestamp <= Cutoff(now))}

\* lines 33-36: DELETE ... WHERE timestamp < cutoff, then commit
cleanup_data(rows, now) == {r \in rows : ~(r.timestamp < Cutoff(now))}

\* order_by(SensorData.id.desc()): the rows whose ids lie in lo..hi, largest
\* id first
RECURSIVE OrderByIdDesc(_, _, _, _)
OrderByIdDesc(rows, ids, lo, hi) ==
    IF lo > hi THEN <<>>
    ELSE IF lo = hi
         THEN IF lo \in ids THEN <<CHOOSE r \in rows : r.id = lo>> ELSE <<>>
         ELSE LET mid == (lo + hi) \div 2
              IN OrderByIdDesc(rows, ids, mid + 1, hi)
                 \o OrderByIdDesc(rows, ids, lo, mid)

\* .limit(n) that lets one row too many through
LimitInclusive(seq, n) == IF Len(seq) <= n + 1 THEN seq ELSE SubSeq(seq, 1, n + 1)

\* .limit(n): at most the first n rows of the ordered result
Limit(seq, n) == IF Len(seq) <= n THEN seq ELSE SubSeq(seq, 1, n)

\* order_by(SensorData.id.desc()).limit(n)
OrderByIdDescLimit(rows, n) ==
    IF rows = {} THEN <<>>
    ELSE Limit(OrderByIdDesc(rows, Ids(rows), MinId(rows), MaxId(rows)), n)

(* ----------------------------- responses ------------------------------- *)
NoJson == [temperature |-> 0, humidity |-> 0, soil_moisture |-> 0, gas_value |-> 0,
           ldr_value |-> 0, timestamp |-> 0, is_healthy |-> FALSE]

NoResp == [kind |-> "none", code |-> 0, status |-> "", buzzer |-> FALSE,
           message |-> "", json |-> NoJson, list |-> <<>>]

\* line 57
Resp400 == [NoResp EXCEPT !.kind = "data", !.code = 400, !.status = "error"]
\* line 103
Resp500 == [NoResp EXCEPT !.kind = "data", !.code = 500, !.status = "error"]
\* lines 96-99
Resp200(buzzer) ==
    [NoResp EXCEPT !.kind = "data", !.code = 200, !.status = "success",
                   !.buzzer = buzzer]

(* ------------------------- POST /api/data ------------------------------ *)
\* names bound in receive_data when line 75 is reached
LocalNames == {"data", "temp", "hum", "soil", "gas", "ldr", "utc_now", "ist_now"}

\* names bound at module level (imports, lines 7-11, the classes and functions)
GlobalNames == {"Flask", "request", "jsonify", "render_template", "SQLAlchemy",
                "CORS", "datetime", "timedelta", "os", "app", "db", "SensorData",
                "check_health", "cleanup_data", "index", "history",
                "receive_data", "get_latest"}

\* names the argument list of lines 76-82 reads
ArgNames == {"temperature", "humidity", "soil_moisture", "gas_value", "ldr_value",
             "flame_detected", "ist_now"}

\* keyword arguments of lines 76-82, and the columns of lines 15-21
Kwargs == {"temperature", "humidity", "soil_moisture", "gas_value", "ldr_value",
           "flame_detected", "timestamp"}
Columns == {"id", "temperature", "humidity", "soil_moisture", "gas_value",
            "ldr_value", "timestamp"}

UnboundNames == ArgNames \ (LocalNames \cup GlobalNames)
InvalidKwargs == Kwargs \ Columns

\* the value a name of the argument list evaluates to
Read(env, name) == IF name \in DOMAIN env THEN env[name] ELSE 0

\* lines 75-83: SensorData(...).  Evaluating the arguments raises NameError on
\* the first unbound name; the declarative constructor raises TypeError on a
\* keyword that is no column.  The timestamp passed is the formatted string.
NewEntry(env, now) ==
    IF UnboundNames # {} \/ InvalidKwargs # {}
    THEN [raised |-> TRUE, entry |-> Row(0, 0, 0, 0, 0, 0, 0), tsType |-> "str"]
    ELSE [raised |-> FALSE,
          entry |-> Row(0, Read(env, "temperature"), Read(env, "humidity"),
                        Read(env, "soil_moisture"), Read(env, "gas_value"),
                        Read(env, "ldr_value"), Normalize(now)),
          tsType |-> "str"]

\* line 21: a DateTime column on SQLite binds datetime objects only; a str
\* raises when the INSERT is flushed
Bindable(tsType) == tsType = "datetime"

\* storage-layer failures a request can meet
Faults == {"none", "insert", "sweep"}

Outcome(resp, rows, assigned) == [resp |-> resp, rows |-> rows, assigned |-> assigned]

\* lines 84-99, reached with a constructed entry: add, cleanup_data() (whose
\* query flushes the pending INSERT before its DELETE, and whose commit makes
\* both durable), commit, classify, respond.  An exception anywhere goes to
\* line 101 and the open transaction is discarded with the request.
Persist(env, made, rows, now, fault) ==
    IF ~Bindable(made.tsType) \/ fault = "insert" THEN Outcome(Resp500, rows, 0)
    ELSE IF fault = "sweep" THEN Outcome(Resp500, rows, 0)
    ELSE Outcome(Resp200(~check_health(env.temp, env.hum, env.gas)),
                 cleanup_data(StoreInsert(rows, made.entry), now),
                 NextRowId(rows))

\* lines 53-103 with an early sweep: cleanup_data() called before the payload
\* is looked at
receive_data_sweepFirst(body, rows, now, fault) ==
    IF ~Truthy(body) THEN Outcome(Resp400, cleanup_data(rows, now), 0)
    ELSE Outcome(Resp500, cleanup_data(rows, now), 0)

\* lines 53-103
receive_data(body, rows, now, fault) ==
    IF ~Truthy(body) THEN Outcome(Resp400, rows, 0)
    ELSE LET parsed == ParseData(body) IN
         IF parsed.raised THEN Outcome(Resp500, rows, 0)
         ELSE LET made == NewEntry(parsed.env, now) IN
              IF made.raised THEN Outcome(Resp500, rows, 0)
              ELSE Persist(parsed.env, made, rows, now, fault)

(* --------------------------- GET /api/latest --------------------------- *)
\* lines 111-122 with the gas reading left out of the classification
LatestJson_gasBlind(latest) ==
    [temperature |-> latest.temperature,
     humidity |-> latest.humidity,
     soil_moisture |-> latest.soil_moisture,
     gas_value |-> latest.gas_value,
     ldr_value |-> latest.ldr_value,
     timestamp |-> strftime(latest.timestamp),
     is_healthy |-> check_health(latest.temperature, latest.humidity, 0)]

\* the JSON body of line 114-122 for one row
LatestJson(latest) ==
    [temperature |-> latest.temperature,
     humidity |-> latest.humidity,
     soil_moisture |-> latest.soil_moisture,
     gas_value |-> latest.gas_value,
     ldr_value |-> latest.ldr_value,
     timestamp |-> strftime(latest.timestamp),
     is_healthy |-> check_health(latest.temperature, latest.humidity,
                                 latest.gas_value)]

\* lines 106-122 with the query ordered by ascending id
get_latest_ascending(rows) ==
    IF rows = {}
    THEN [NoResp EXCEPT !.kind = "latest", !.code = 200, !.message = "No data"]
    ELSE [NoResp EXCEPT !.kind = "latest", !.code = 200,
            !.json = LatestJson(CHOOSE r \in rows : r.id = MinId(rows))]

\* lines 106-122
get_latest(rows) ==
    LET found == OrderByIdDescLimit(rows, 1) IN
    IF found = <<>>
    THEN [NoResp EXCEPT !.kind = "latest", !.code = 200, !.message = "No data"]
    ELSE [NoResp EXCEPT !.kind = "latest", !.code = 200,
                        !.json = LatestJson(found[1])]

(* ----------------------------- GET /history ---------------------------- *)
\* lines 48-51: the rows handed to the template
history(rows) ==
    [NoResp EXCEPT !.kind = "history", !.code = 200,
                   !.list = OrderByIdDescLimit(rows, HistoryLimit)]

(* ------------------------------- state --------------------------------- *)
VARIABLES
    store,    \* the committed rows of the SensorData table (database.db)
    clock,    \* the server's wall clock, datetime.now()
    req,      \* the request served last
    resp,     \* the response it was given
    before,   \* the table as it was when that request arrived
    idLog,    \* the ids assigned by INSERTs, in insertion order
    stampedAt, \* for each row inserted, the server time its request read
    rq        \* the POST requests being served, one per worker thread

vars == <<store, clock, req, resp, before, idLog, stampedAt, rq>>

\* the threads of the development server that serve POST /api/data
Procs == {"p1", "p2"}

\* a thread that serves no request
Idle ==
    [pc |-> "idle", via |-> "none", body |-> NoBody, now |-> 0,
     env |-> [temp |-> 0, hum |-> 0, soil |-> 0, gas |-> 0, ldr |-> 0],
     made |-> [raised |-> FALSE, entry |-> Row(0, 0, 0, 0, 0, 0, 0), tsType |-> "str"],
     hasTx |-> FALSE, tx |-> {}, rowid |-> 0, committed |-> FALSE,
     sent |-> <<>>, trace |-> <<>>, overlap |-> FALSE]

\* the row an INSERT added to the table, with the clock reading of line 69
Stamped(rows, id, now) == {[row |-> r, at |-> now] : r \in {q \in rows : q.id = id}}

Request(op, body, fault, now) == [op |-> op, body |-> body, fault |-> fault, now |-> now]

(* --------------------------- request inputs ---------------------------- *)
\* the readings a device sends: at, below and above the thresholds
TemperatureInputs == {Absent, Num(TempMin * Scale - 1), Num(TempMin * Scale),
                      Str("abc")}
HumidityInputs == {Absent, Num(HumMin * Scale)}
GasInputs == {Absent, Num(GasMax * Scale + 1)}

Payload(t, h, s, g, l) ==
    Object([temperature |-> t, humidity |-> h, soil_moisture |-> s,
            gas_value |-> g, ldr_value |-> l], FALSE)

ObjectBodies ==
    {Payload(t, h, Absent, g, Absent) :
        t \in TemperatureInputs, h \in HumidityInputs, g \in GasInputs}
    \cup {Payload(Num(26 * Scale), Num(75 * Scale), Num(40 * Scale),
                  Num(500 * Scale), Num(300 * Scale)),
          Payload(Num(26 * Scale), Num(75 * Scale), Str("26"),
                  Num(500 * Scale), Bool(TRUE)),
          Payload(Num(26 * Scale), Num(75 * Scale), Num(40 * Scale),
                  Num(500 * Scale), Null),
          Payload(Absent, Absent, Num(40 * Scale), Absent, Num(300 * Scale))}

\* no body or no JSON; JSON that is no object; an object with foreign keys only
OtherBodies == {NoBody, Scalar(Num(0)), Scalar(Num(5 * Scale)), Scalar(Arr(0)),
                Scalar(Arr(2)), Scalar(Str("abc")), Object(NoFields, TRUE)}

Bodies == ObjectBodies \cup OtherBodies

\* the instants the clock is observed at
Horizon == Retention + ISTOffset
Instants == {0, 1, Horizon, Horizon + 1}

(* ---------------------------- stored tables ---------------------------- *)
OldStamp == 0 - (RetentionDays + 1) * Day
RecentStamp == Normalize(0)

\* rows an earlier run left in database.db: an unhealthy reading older than
\* the horizon, or a healthy recent one
SampleRows(id) ==
    {Row(id, (TempMax + 1) * Scale, 50 * Scale, 10 * Scale, 2000 * Scale,
         5 * Scale, OldStamp + id),
     Row(id, 26 * Scale, 75 * Scale, 40 * Scale, 500 * Scale, 300 * Scale,
         RecentStamp)}

SmallStores ==
    {rows \in SUBSET (UNION {SampleRows(id) : id \in 1..MaxRows}) :
        \A r, q \in rows : r.id = q.id => r = q}

BigRow(id) ==
    Row(id, (TempMin + (id % 7)) * Scale, 75 * Scale, 40 * Scale, 500 * Scale,
        300 * Scale, RecentStamp - id * Minute)

BigStores ==
    {{BigRow(id) : id \in 1..n} :
        n \in (HistoryLimit - BigMargin)..(HistoryLimit + BigMargin)}

(* -------------------- the server: requests and clock ------------------- *)
Init ==
    /\ store \in SmallStores \cup BigStores
    /\ clock = 0
    /\ req = Request("start", NoBody, "none", 0)
    /\ resp = NoResp
    /\ before = store
    /\ idLog = <<>>
    /\ stampedAt = {}
    /\ rq = [p \in Procs |-> Idle]

\* one POST /api/data, from arrival to response
PostData ==
    /\ Len(idLog) < MaxInserts
    /\ \E body \in Bodies, fault \in Faults :
        LET out == receive_data(body, store, clock, fault) IN
        /\ store' = out.rows
        /\ resp' = out.resp
        /\ req' = Request("post", body, fault, clock)
        /\ before' = store
        /\ idLog' = IF out.assigned = 0 THEN idLog ELSE Append(idLog, out.assigned)
        /\ stampedAt' = IF out.assigned = 0 THEN stampedAt
                        ELSE stampedAt \cup Stamped(out.rows, out.assigned, clock)
        /\ UNCHANGED <<clock, rq>>

\* GET /api/latest with a cleanup_data() call ahead of the query
GetLatestSweeping ==
    /\ store' = cleanup_data(store, clock)
    /\ resp' = get_latest(store')
    /\ req' = Request("latest", NoBody, "none", clock)
    /\ before' = store
    /\ UNCHANGED <<clock, idLog, stampedAt, rq>>

\* one GET /api/latest
GetLatest ==
    /\ resp' = get_latest(store)
    /\ req' = Request("latest", NoBody, "none", clock)
    /\ before' = store
    /\ UNCHANGED <<store, clock, idLog, stampedAt, rq>>

\* GET /history reading through the open transaction of a request
GetHistoryUncommitted ==
    /\ resp' = history(IF \E p \in Procs : rq[p].hasTx
                       THEN (CHOOSE t \in {rq[p].tx : p \in {q \in Procs : rq[q].hasTx}} : TRUE)
                       ELSE store)
    /\ req' = Request("history", NoBody, "none", clock)
    /\ before' = store
    /\ UNCHANGED <<store, clock, idLog, stampedAt, rq>>

\* one GET /history
GetHistory ==
    /\ resp' = history(store)
    /\ req' = Request("history", NoBody, "none", clock)
    /\ before' = store
    /\ UNCHANGED <<store, clock, idLog, stampedAt, rq>>

\* the wall clock moves (or is set) between requests; the last response has
\* been delivered
Tick ==
    /\ \E t \in Instants \ {clock} : clock' = t
    /\ req' = Request("start", NoBody, "none", 0)
    /\ resp' = NoResp
    /\ before' = store
    /\ UNCHANGED <<store, idLog, stampedAt, rq>>

Next == PostData \/ GetLatest \/ GetHistory \/ Tick

Spec == Init /\ [][Next]_vars

(* ------------- the store and the sweeper as components ----------------- *)
\* the readings persisted by the component-level insert
ReadingInputs ==
    {Row(0, 26 * Scale, 75 * Scale, 40 * Scale, 500 * Scale, 300 * Scale, 0),
     Row(0, (TempMax + 1) * Scale, 50 * Scale, 10 * Scale, 2000 * Scale,
         5 * Scale, 0),
     Row(0, 26 * Scale, 75 * Scale, 40 * Scale, 2000 * Scale, 300 * Scale, 0)}

InitStore ==
    /\ store = {}
    /\ clock = 0
    /\ req = Request("start", NoBody, "none", 0)
    /\ resp = NoResp
    /\ before = store
    /\ idLog = <<>>
    /\ stampedAt = {}
    /\ rq = [p \in Procs |-> Idle]

\* lines 84 and 89 on their own: a reading stamped Normalize(now) is added
\* and committed
StoreAdd ==
    /\ Len(idLog) < MaxInserts
    /\ \E reading \in ReadingInputs :
        store' = StoreInsert(store, [reading EXCEPT !.timestamp = Normalize(clock)])
    /\ idLog' = Append(idLog, NextRowId(store))
    /\ stampedAt' = stampedAt \cup Stamped(store', NextRowId(store), clock)
    /\ req' = Request("insert", NoBody, "none", clock)
    /\ resp' = NoResp
    /\ before' = store
    /\ UNCHANGED <<clock, rq>>

\* lines 32-36 on their own: cleanup_data()
Sweep ==
    /\ store' = cleanup_data(store, clock)
    /\ req' = Request("sweep", NoBody, "none", clock)
    /\ resp' = NoResp
    /\ before' = store
    /\ UNCHANGED <<clock, idLog, stampedAt, rq>>

\* the values lines 61-65 hand on for a reading
Env(reading) ==
    [temp |-> reading.temperature, hum |-> reading.humidity,
     soil |-> reading.soil_moisture, gas |-> reading.gas_value,
     ldr |-> reading.ldr_value]

\* a new_entry as the model class builds it from a reading: its five columns
\* and a datetime in the timestamp column
Entry(reading, now) ==
    [raised |-> FALSE, entry |-> [reading EXCEPT !.timestamp = Normalize(now)],
     tsType |-> "datetime"]

\* lines 84-99 on their own, given a well-formed new_entry: add,
\* cleanup_data(), commit, classify, respond
PersistReading ==
    /\ Len(idLog) < MaxInserts
    /\ \E reading \in ReadingInputs, fault \in Faults :
        LET out == Persist(Env(reading), Entry(reading, clock), store, clock, fault) IN
        /\ store' = out.rows
        /\ resp' = out.resp
        /\ req' = Request("ingest", NoBody, fault, clock)
        /\ idLog' = IF out.assigned = 0 THEN idLog ELSE Append(idLog, out.assigned)
        /\ stampedAt' = IF out.assigned = 0 THEN stampedAt
                        ELSE stampedAt \cup Stamped(out.rows, out.assigned, clock)
    /\ before' = store
    /\ UNCHANGED <<clock, rq>>

NextStore == StoreAdd \/ Sweep \/ PersistReading \/ GetLatest \/ GetHistory \/ Tick

SpecStore == InitStore /\ [][NextStore]_vars

(* ------------------- the classifier on its thresholds ------------------ *)
\* readings at and one grid step outside every threshold
ThresholdRows ==
    {Row(1, t, h, s, g, l, RecentStamp) :
        t \in {TempMin * Scale - 1, TempMin * Scale, TempMax * Scale,
               TempMax * Scale + 1},
        h \in {HumMin * Scale - 1, HumMin * Scale, HumMax * Scale,
               HumMax * Scale + 1},
        s \in {0, 40 * Scale},
        g \in {0, GasMax * Scale, GasMax * Scale + 1},
        l \in {0, 300 * Scale}}

InitHealth ==
    /\ \E r \in ThresholdRows : store = {r}
    /\ clock = 0
    /\ req = Request("start", NoBody, "none", 0)
    /\ resp = NoResp
    /\ before = store
    /\ idLog = <<>>
    /\ stampedAt = {}
    /\ rq = [p \in Procs |-> Idle]

\* check_health as the read path applies it (line 112)
NextHealth == GetLatest

SpecHealth == InitHealth /\ [][NextHealth]_vars

(* ---------------- POST /api/data step by step, two threads -------------- *)
\* the steps of a request in the order of lines 55-99
StepOrder == <<"validate", "normalize", "persist", "sweep", "classify">>

Did(r, step) == [r EXCEPT !.trace = Append(@, step)]

\* return jsonify(...): the response leaves, the session and what it had
\* pending go with the request
Respond(r, answer) ==
    [r EXCEPT !.pc = "done", !.sent = Append(@, answer),
              !.trace = Append(@, "respond"), !.hasTx = FALSE, !.tx = {}]

\* lines 55-57 without the return: the 400 is built and the handler goes on
Received_noReturn(r) ==
    IF ~Truthy(r.body)
    THEN [Did(r, "validate") EXCEPT !.sent = Append(@, Resp400), !.pc = "parse"]
    ELSE [Did(r, "validate") EXCEPT !.pc = "parse"]

\* lines 55-57
Received(r) ==
    IF ~Truthy(r.body) THEN Respond(Did(r, "validate"), Resp400)
    ELSE [Did(r, "validate") EXCEPT !.pc = "parse"]

\* lines 61-65, and 101-103 when a conversion raises
Parsed(r) ==
    LET parsed == ParseData(r.body) IN
    IF parsed.raised THEN Respond(r, Resp500)
    ELSE [r EXCEPT !.env = parsed.env, !.pc = "stamp"]

\* lines 69-83, and 101-103 when the constructor call raises
Built(r) ==
    LET made == NewEntry(r.env, r.now) IN
    IF made.raised THEN Respond(Did(r, "normalize"), Resp500)
    ELSE [Did(r, "normalize") EXCEPT !.made = made, !.pc = "add"]

\* line 84: the entry is pending in the session of the request
Added(r) == [Did(r, "persist") EXCEPT !.pc = "sweep"]

\* lines 87 and 33-34: the DELETE query flushes the pending INSERT first;
\* both are written in the transaction of the request, not yet committed
Swept(r, rows, fault) ==
    IF ~Bindable(r.made.tsType) \/ fault = "insert" THEN Respond(r, Resp500)
    ELSE [Did(r, "sweep") EXCEPT
              !.tx = cleanup_data(StoreInsert(rows, r.made.entry), r.now),
              !.hasTx = TRUE, !.rowid = NextRowId(rows), !.pc = "commit"]

\* line 35: the commit inside cleanup_data()
Committed(r, fault) ==
    IF fault = "sweep" THEN Respond(r, Resp500)
    ELSE [r EXCEPT !.committed = TRUE, !.hasTx = FALSE, !.pc = "classify"]

\* lines 89-99: commit (nothing is pending any more), check_health, respond
Classified(r) ==
    Respond(Did(r, "classify"), Resp200(~check_health(r.env.temp, r.env.hum, r.env.gas)))

\* one step of a request
Step(r, fault, rows) ==
    CASE r.pc = "recv" -> Received(r)
      [] r.pc = "parse" -> Parsed(r)
      [] r.pc = "stamp" -> Built(r)
      [] r.pc = "add" -> Added(r)
      [] r.pc = "sweep" -> Swept(r, rows, fault)
      [] r.pc = "commit" -> Committed(r, fault)
      [] r.pc = "classify" -> Classified(r)

InFlight(r) == r.pc \notin {"idle", "done"}

\* a request arrives while another is being served
Meets(p) == \E q \in Procs \ {p} : InFlight(rq[q])

\* what the arrival of a request at thread p does to the threads
Admit(p, r) ==
    [q \in Procs |->
        IF q = p THEN [r EXCEPT !.overlap = Meets(p)]
        ELSE IF InFlight(rq[q]) THEN [rq[q] EXCEPT !.overlap = TRUE]
        ELSE rq[q]]

\* the requests served so far and in service
Load == Len(idLog) + Cardinality({q \in Procs : InFlight(rq[q])})

\* payloads for the threads: a full reading, {}, a field that is no number
ConcBodies ==
    {Payload(Num(26 * Scale), Num(75 * Scale), Num(40 * Scale),
             Num(500 * Scale), Num(300 * Scale)),
     Object(NoFields, FALSE),
     Payload(Num(26 * Scale), Str("abc"), Absent, Absent, Absent)}

\* tables to start from: empty, or an expired row below a recent one
ConcStores ==
    {{},
     {Row(1, (TempMax + 1) * Scale, 50 * Scale, 10 * Scale, 2000 * Scale,
          5 * Scale, OldStamp),
      Row(2, 26 * Scale, 75 * Scale, 40 * Scale, 500 * Scale, 300 * Scale,
          RecentStamp)}}

InitConc ==
    /\ store \in ConcStores
    /\ clock = 0
    /\ req = Request("start", NoBody, "none", 0)
    /\ resp = NoResp
    /\ before = store
    /\ idLog = <<>>
    /\ stampedAt = {}
    /\ rq = [p \in Procs |-> Idle]

Unmoved ==
    /\ req' = Request("step", NoBody, "none", clock)
    /\ resp' = NoResp
    /\ before' = store

\* a POST /api/data reaches thread p (line 53)
Arrive(p) ==
    /\ ~InFlight(rq[p])
    /\ Load < MaxInserts
    /\ \E body \in ConcBodies :
        rq' = Admit(p, [Idle EXCEPT !.pc = "recv", !.via = "http",
                                   !.body = body, !.now = clock])
    /\ Unmoved
    /\ UNCHANGED <<store, clock, idLog, stampedAt>>

\* thread p stands before line 84 with a well-formed new_entry
Begin(p) ==
    /\ ~InFlight(rq[p])
    /\ Load < MaxInserts
    /\ \E reading \in ReadingInputs :
        rq' = Admit(p, [Idle EXCEPT !.pc = "add", !.via = "entry", !.now = clock,
                                   !.env = Env(reading),
                                   !.made = Entry(reading, clock),
                                   !.trace = <<"validate", "normalize">>])
    /\ Unmoved
    /\ UNCHANGED <<store, clock, idLog, stampedAt>>

\* thread p runs its next step; the INSERT waits while another thread holds
\* the write lock of the database file
Advance(p) ==
    /\ InFlight(rq[p])
    /\ rq[p].pc = "sweep" => \A q \in Procs : ~rq[q].hasTx
    /\ \E fault \in Faults :
        LET r == Step(rq[p], fault, store)
            commits == rq[p].pc = "commit" /\ r.committed IN
        /\ rq' = [rq EXCEPT ![p] = r]
        /\ store' = IF commits THEN rq[p].tx ELSE store
        /\ idLog' = IF commits THEN Append(idLog, rq[p].rowid) ELSE idLog
        /\ stampedAt' = IF commits
                        THEN stampedAt \cup Stamped(rq[p].tx, rq[p].rowid, rq[p].now)
                        ELSE stampedAt
    /\ Unmoved
    /\ UNCHANGED clock

NextConc ==
    \/ \E p \in Procs : Arrive(p) \/ Begin(p) \/ Advance(p)
    \/ GetLatest
    \/ GetHistory

SpecConc == InitConc /\ [][NextConc]_vars

(* ======================= the claims, C1 to C10 ========================= *)
\* a JSON object in which each of the five fields is numeric or absent
ValidBody(body) ==
    body.kind = "object" /\ \A f \in FieldNames : body.fields[f].t \in {"absent", "num"}

\* the value a payload gives a field: its number, 0 when absent
Val(body, f) == IF body.fields[f].t = "num" THEN body.fields[f].n ELSE 0

\* isHealthy as the specification states it
IsHealthy(temperature, humidity, gasValue) ==
    /\ TempMin * Scale <= temperature /\ temperature <= TempMax * Scale
    /\ HumMin * Scale <= humidity /\ humidity <= HumMax * Scale
    /\ gasValue <= GasMax * Scale

\* the row carries exactly the payload of the request and its normalized time
CarriesPayload(r, request) ==
    /\ \A f \in FieldNames : r[f] = Val(request.body, f)
    /\ r.timestamp = strftime(request.now + ISTOffset)

ValidPost == req.op = "post" /\ ValidBody(req.body) /\ req.fault = "none"

\* C1: every POST /api/data whose body is a JSON object with numeric or absent
\* fields is answered 200 {status: "success", buzzer: b}, b being true exactly
\* when isHealthy(temperature, humidity, gas_value) is false.
C1_ValidPostAnswered200 ==
    ValidPost =>
        /\ resp.code = 200
        /\ resp.status = "success"
        /\ resp.buzzer = ~IsHealthy(Val(req.body, "temperature"),
                                    Val(req.body, "humidity"),
                                    Val(req.body, "gas_value"))

C3_FailureLeavesStore ==
    (req.op = "post" /\ resp.code \in {400, 500}) => store = before

\* C3 witness: temperature "abc" was answered 500 while the table held a row
\* older than the horizon
C3_Witness ==
    /\ req.op = "post"
    /\ req.body.fields["temperature"] = Str("abc")
    /\ resp.code = 500
    /\ \E r \in store : r.timestamp < Cutoff(req.now)

\* C4: for a JSON object body any subset of the five fields may be absent,
\* the empty object included; each absent field is stored as 0 and the
\* request is ingested, not rejected.
C4_AbsentFieldsStoredAsZero ==
    (ValidPost /\ Present(req.body) # FieldNames) =>
        /\ resp.code = 200
        /\ \E r \in store \ before :
            \A f \in FieldNames \ Present(req.body) : r[f] = 0

C6_SweepFailureSwallowed ==
    (req.op = "post" /\ ValidBody(req.body) /\ req.fault = "sweep") =>
        /\ resp.code = 200
        /\ resp.status = "success"
        /\ \E r \in store \ before : CarriesPayload(r, req)

C8_Only400WithoutBody ==
    req.op = "post" =>
        /\ (resp.code = 400 <=> req.body.kind = "none")
        /\ (req.body.kind # "none" /\ resp.status = "error" => resp.code = 500)
        /\ (req.body.kind = "object" => resp.code # 400)

\* C9: GET /api/latest returns {message: "No data"} if and only if the store
\* has no rows; otherwise the fields of the stored Reading with the largest id
\* and is_healthy = isHealthy of that Reading.
C9_LatestIsLargestId ==
    req.op = "latest" =>
        /\ (resp.message = "No data" <=> store = {})
        /\ store # {} =>
            \E r \in store :
                /\ \A q \in store : q.id <= r.id
                /\ \A f \in FieldNames : resp.json[f] = r[f]
                /\ resp.json.timestamp = (r.timestamp \div Second) * Second
                /\ resp.json.is_healthy =
                       IsHealthy(r.temperature, r.humidity, r.gas_value)

\* C9 witness: a latest query answered from a table of several rows whose
\* largest id holds an unhealthy reading
C9_Witness ==
    /\ req.op = "latest"
    /\ Cardinality(store) >= 2
    /\ resp.message = ""
    /\ ~resp.json.is_healthy

\* C10: recentN(100) returns min(100, number of stored rows) Readings, all of
\* them stored, strictly descending by id, and they are the rows with the
\* largest ids.
C10_HistoryIsTop100 ==
    req.op = "history" =>
        LET l == resp.list
            n == Len(l)
        IN /\ n = (IF Cardinality(store) < HistoryLimit
                   THEN Cardinality(store) ELSE HistoryLimit)
           /\ \A i \in 1..n : l[i] \in store
           /\ \A i \in 1..(n - 1) : l[i].id > l[i + 1].id
           /\ \A r \in store :
                (\E i \in 1..n : l[i] = r) \/ (\A i \in 1..n : r.id < l[i].id)

\* C10 witness: the history of a table of more than 100 rows
C10_Witness ==
    /\ req.op = "history"
    /\ Cardinality(store) > HistoryLimit
    /\ Len(resp.list) = HistoryLimit

C12_ReadsLeaveStore ==
    /\ req.op # "post" => store = before
    /\ (req.op = "history" /\ Cardinality(store) <= HistoryLimit) =>
        \A r \in before : \E i \in 1..Len(resp.list) : resp.list[i] = r
    /\ (req.op = "latest" /\ before # {}) =>
        \E r \in store : r.id = MaxId(before) /\ resp.json.gas_value = r.gas_value

\* C12 witness: latest() answered with a row that was already older than the
\* horizon when the query ran
C12_Witness ==
    /\ req.op = "latest"
    /\ \E r \in store :
        /\ r.id = MaxId(store)
        /\ r.timestamp < req.now - RetentionDays * Day
        /\ resp.json.timestamp = strftime(r.timestamp)
        /\ resp.message = ""

\* C13: running the range delete a second time with the same cutoff and no
\* insert in between deletes nothing: the store stays as the first run left
\* it.
C13_SecondSweepDeletesNothing ==
    req.op = "sweep" => cleanup_data(store, req.now) = store

\* C13 witness: a sweep that deleted a row and kept another
C13_Witness ==
    /\ req.op = "sweep"
    /\ before \ store # {}
    /\ store # {}

SweepCommitted == req.op = "sweep" \/ (req.op = "ingest" /\ resp.code = 200)

BothServed ==
    \A p \in Procs :
        /\ rq[p].pc = "done"
        /\ rq[p].via = "http"
        /\ rq[p].overlap
        /\ ValidBody(rq[p].body)
        /\ Truthy(rq[p].body)

\* C14: two POST /api/data with valid payloads served concurrently both
\* answer success and both Readings are stored under distinct ids, as when
\* the two run one after the other.
C14_ConcurrentIngestionsBothStored ==
    BothServed =>
        /\ \A p \in Procs : rq[p].sent = <<Resp200(rq[p].sent[1].buzzer)>>
        /\ \E f \in [Procs -> store] :
            /\ \A p, q \in Procs : p # q => f[p].id # f[q].id
            /\ \A p \in Procs : CarriesPayload(f[p], rq[p])

\* the rows a GET /history answered
Listed == {resp.list[i] : i \in 1..Len(resp.list)}

RanInOrder(r, k) ==
    \/ r.trace = SubSeq(StepOrder, 1, k) /\ r.sent = <<>>
    \/ r.trace = Append(SubSeq(StepOrder, 1, k), "respond") /\ Len(r.sent) = 1

====
